---- MODULE Spec2Model ----
(***************************************************************************)
(* Deployment orchestration (deploy.py: DeploymentManager) and the smoke   *)
(* test suite (smoke_tests.py: SmokeTest) as a state machine.              *)
(*                                                                         *)
(* One manager object is constructed with a deployment type; a caller then *)
(* invokes deploy(run_tests), rollback() or wait_for_deployment(max_wait)  *)
(* on it, one call after the other.  Every external effect (a shell        *)
(* command, an HTTP request) is one step whose outcome is chosen by the    *)
(* environment.                                                            *)
(***************************************************************************)
EXTENDS Naturals, Sequences, FiniteSets

\* ------------------------------------------------------------------ bounds
\* number of calls made on one manager object
MaxCalls == 2
\* largest max_wait (seconds) passed to a direct wait_for_deployment call
MaxWaitArg == 31
\* number of run_all_tests calls made on one SmokeTest object
MaxRuns == 2
\* number of log_prediction calls made on one prediction log
MaxLog == 3
\* number of log_prediction calls made by two monitors sharing one log file
MaxWriterAppends == 2
\* latest clock value (hours) at which an operation of a monitor starts
MaxClock == 24
MaxImages == 2
MaxEvalRuns == 2
\* largest number of *.jpg files in one class directory of the test directory
MaxDirImages == 6

\* ------------------------------------------------------- program constants
\* wait_for_deployment: default of max_wait
DefaultMaxWait == 300
\* wait_for_deployment: seconds per attempt (range(max_wait // 10), sleep(10))
PollInterval == 10
\* get_performance_metrics: timedelta(hours=24)
RecentWindow == 24
\* check_model_drift: default of threshold (percentage points)
DefaultThreshold == 5
\* test_with_known_images: list(class_dir.glob("*.jpg"))[:5]
SampleSize == 5

VARIABLES
    deployment_type,  \* self.deployment_type
    entry,            \* public method being executed: none/deploy/rollback/wait/smoke
    run_tests,        \* deploy's argument
    pc,               \* position of the running call
    executed,         \* external commands run by this call: [cmd, ok] in order
    max_wait,         \* wait_for_deployment's argument
    i,                \* wait_for_deployment's loop variable (attempts completed)
    polls,            \* health requests issued by this call
    lastPoll,         \* what the last health request observed
    sawHealthy,       \* some poll of this call observed 200 + healthy body
    sawNetErr,        \* some poll of this call raised a network error
    suiteRuns,        \* times run_smoke_tests was entered by this call
    test_results,     \* SmokeTest.test_results: <<name, status>> in order
    svc,              \* test_monitoring_services: index of the next service
    ret,              \* value returned by the call: none/True/False/None
    failedAt,         \* step at which deploy gave up: none/type/command/health/smoke
    lastPrint,        \* last diagnostic line printed by the call
    calls,            \* calls completed on this manager
    observed,         \* <<ret, lastPrint, failedAt>> of the completed deploy calls
    probeResp         \* what the last request of a smoke probe observed

\* model_monitor.py: ModelPerformanceMonitor objects m \in Monitors on one log file
VARIABLES
    now,              \* datetime.now(), in hours
    log_file,         \* the file at self.log_file: [state, total_predictions, predictions]
    constructed,      \* constructed[m]: __init__ of monitor m has run
    predictions_log,  \* predictions_log[m]: self.predictions_log of monitor m
    appends,          \* log_prediction calls completed (by all monitors)
    appendLimit,      \* log_prediction calls the callers make in this run
    lastOp,           \* last method executed on a monitor: [op, m, arg]
    logRet,           \* how the last log_prediction ended: none/None/TypeError
    saved,            \* whether _save_logs of the last log_prediction wrote the file
    snapshot,         \* value returned by the last get_performance_metrics
    driftRet          \* value returned by the last check_model_drift

\* model_monitor.py: test_with_known_images running on monitor 1
VARIABLES
    test_dir,         \* the test directory: [exists, cat, dog] (number of *.jpg files)
    test_images,      \* test_images: the actual_class of each image, in order
    knownPc,          \* position of test_with_known_images: idle/requests/done
    knownIdx,         \* images requested so far
    knownResp,        \* what the last POST /predict observed
    knownTotal,       \* local total_predictions
    knownCorrect,     \* local correct_predictions
    knownRet          \* value returned: [kind, accuracy]

knownVars == <<test_dir, test_images, knownPc, knownIdx, knownResp, knownTotal,
               knownCorrect, knownRet>>

monVars == <<now, log_file, constructed, predictions_log, appends, appendLimit,
             lastOp, logRet, saved, snapshot, driftRet, knownVars>>

\* post_deployment_eval.py: one PostDeploymentEvaluator and its output file
VARIABLES
    true_labels,      \* load_test_data(): label of image k (image_paths[k])
    save_to_file,     \* argument of run_evaluation
    evalPc,           \* position of run_evaluation: idle/predict/done
    evalIdx,          \* images predict_batch has requested so far
    predictions,      \* predict_batch: [image, predicted_class] of the 200 answers
    summary,          \* results of evaluate_performance
    evalRet,          \* how run_evaluation ended: none/None/results/ValueError/OSError
    output_file,      \* post_deployment_evaluation.json: [state, doc]
    evalRuns          \* run_evaluation calls made

evalVars == <<true_labels, save_to_file, evalPc, evalIdx, predictions, summary,
              evalRet, output_file, evalRuns>>

vars == <<deployment_type, entry, run_tests, pc, executed, max_wait, i, polls,
          lastPoll, sawHealthy, sawNetErr, suiteRuns, test_results, svc, ret,
          failedAt, lastPrint, calls, observed, probeResp, monVars, evalVars>>

deployVars == <<deployment_type, entry, run_tests, pc, executed, max_wait, i, polls,
                lastPoll, sawHealthy, sawNetErr, suiteRuns, test_results, svc, ret,
                failedAt, lastPrint, calls, observed, probeResp>>

\* ------------------------------------------------------------ environment
DeploymentTypes == {"docker", "k8s", "other"}
\* a shell command exits 0, exits non-zero, or cannot be executed at all
CmdOutcomes == {"exit0", "nonzero", "raise"}
\* GET /health: 200 with {status: healthy, model_loaded: true}; 200 with any
\* other body; another status; a network error
HealthResponses == {"healthy200", "unready200", "non200", "neterr"}

\* ------------------------------------------------------------ deploy.py
DockerCommands ==
    << "docker-compose down", "docker-compose build --no-cache", "docker-compose up -d" >>

K8sCommands ==
    << "kubectl apply -f k8s/", "kubectl rollout status deployment/cats-dogs-inference",
       "kubectl get services" >>

Commands(t) == IF t = "docker" THEN DockerCommands ELSE K8sCommands

\* variant: the teardown commands of the two plan kinds exchanged
RollbackCommand_Swapped(t) ==
    IF t = "docker" THEN "kubectl rollout undo deployment/cats-dogs-inference"
    ELSE "docker-compose down"

RollbackCommand(t) ==
    IF t = "docker" THEN "docker-compose down"
    ELSE "kubectl rollout undo deployment/cats-dogs-inference"

\* run_command: subprocess.run(..., check=check); with check a non-zero exit
\* raises CalledProcessError, which the except clause turns into False
RunCommand(outcome, check) ==
    IF outcome = "exit0" THEN [ok |-> TRUE, msg |-> "Success"]
    ELSE IF outcome = "nonzero" /\ ~check THEN [ok |-> FALSE, msg |-> "Failed"]
    ELSE [ok |-> FALSE, msg |-> "Exception"]

\* variant: the result of run_command is ignored, the loop goes on
NextAfterCommand_NoAbort(ok, idx, n) ==
    IF idx = n THEN "waiting" ELSE "commands"

\* deploy_docker_compose / deploy_kubernetes: "if not run_command(cmd): return
\* False" inside the loop, "return True" after it.  Position after command
\* number idx of n finished with result ok.
NextAfterCommand(ok, idx, n) ==
    IF ~ok THEN "done" ELSE IF idx = n THEN "waiting" ELSE "commands"

\* variant: a failed deploy tears the deployment down before it returns
DeployFailureCommands_Rollback(t) == << [cmd |-> RollbackCommand(t), ok |-> TRUE] >>

\* deploy: the commands run between a failed step and "return False" (the
\* failure branches return at once; rollback is not called)
DeployFailureCommands(t) == << >>

\* variant: twice as many attempts as max_wait // 10
WaitAttempts_Double(mw) == 2 * (mw \div PollInterval)

\* wait_for_deployment: range(max_wait // 10)
WaitAttempts(mw) == mw \div PollInterval

\* wait_for_deployment: "if response.status_code == 200" (the body is not read)
IsReady(resp) == resp \in {"healthy200", "unready200"}

\* variant: no try/except around the request, a network error leaves the loop
PollStep_AbortOnError(resp) ==
    IF resp = "neterr" THEN "abort" ELSE IF IsReady(resp) THEN "return" ELSE "continue"

\* wait_for_deployment: what one loop iteration does with the response:
\* "return" (True) or "continue" (an exception is passed over, sleep, next i)
PollStep(resp) == IF resp # "neterr" /\ IsReady(resp) THEN "return" ELSE "continue"

\* variant: run_tests is not consulted, the smoke tests never run
AfterWait_SkipSmoke(ready, rt) == "done"

\* deploy, after wait_for_deployment returned ready: run the smoke tests or finish
AfterWait(ready, rt) ==
    IF ~ready THEN "done" ELSE IF rt THEN "smoke_start" ELSE "done"

\* --------------------------------------------------------- smoke_tests.py
PredictionResponses == {"ok", "zero_conf", "bad_format", "non200", "neterr"}
MetricsResponses == {"with_counter", "without_counter", "non200", "neterr"}
ServiceResponses == {"200", "non200", "neterr"}

MonitoringServices == << "Grafana", "Prometheus", "MLflow" >>

\* test_health_endpoint: PASS iff 200 and status == healthy and model_loaded
HealthStatus(resp) == IF resp = "healthy200" THEN "PASS" ELSE "FAIL"

\* variant: the prediction probe's error handler reports the probe as skipped
PredictionStatus_ErrorSkipped(resp) ==
    IF resp = "ok" THEN "PASS" ELSE IF resp = "neterr" THEN "SKIP" ELSE "FAIL"

\* test_prediction_endpoint: PASS iff 200, both fields present, confidence > 0
PredictionStatus(resp) == IF resp = "ok" THEN "PASS" ELSE "FAIL"

\* test_metrics_endpoint: PASS iff 200 and the counter name is in the text
MetricsStatus(resp) == IF resp = "with_counter" THEN "PASS" ELSE "FAIL"

\* variant: the optional service is skipped whenever it does not answer 200
ServiceStatus_SkipOnAnyFailure(name, resp) ==
    IF resp = "200" THEN "PASS"
    ELSE IF name = "MLflow" THEN "SKIP" ELSE "FAIL"

\* test_monitoring_services: one iteration of the loop
ServiceStatus(name, resp) ==
    IF resp = "200" THEN "PASS"
    ELSE IF resp = "non200" THEN "FAIL"
    ELSE IF name = "MLflow" THEN "SKIP" ELSE "FAIL"

\* run_all_tests: the counting loop over self.test_results
RECURSIVE CountResults(_, _)
CountResults(results, counts) ==
    IF results = << >> THEN counts
    ELSE LET status == Head(results)[2]
             c == IF status = "PASS" THEN [counts EXCEPT !.passed = @ + 1]
                  ELSE IF status = "FAIL" THEN [counts EXCEPT !.failed = @ + 1]
                  ELSE [counts EXCEPT !.skipped = @ + 1]
         IN  CountResults(Tail(results), c)

\* variant: a run stops at its first failed probe
AfterProbe_StopOnFail(status, next) == IF status = "FAIL" THEN "aggregate" ELSE next

\* run_all_tests: the probes are called one after the other, the value each
\* returns is not used
AfterProbe(status, next) == next

\* variant: only the six results of the current run are counted
RunAllTests_CurrentRunOnly(results) ==
    CountResults(SubSeq(results, Len(results) - 5, Len(results)),
                 [passed |-> 0, failed |-> 0, skipped |-> 0]).failed = 0

\* variant: "if passed > 0"
RunAllTests_AnyPassed(results) ==
    CountResults(results, [passed |-> 0, failed |-> 0, skipped |-> 0]).passed > 0

\* variant: "if passed == total" (a skipped probe counts against the run)
RunAllTests_PassedEqualsTotal(results) ==
    CountResults(results, [passed |-> 0, failed |-> 0, skipped |-> 0]).passed = Len(results)

\* run_all_tests: "if failed == 0: return True else: return False"
RunAllTests(results) ==
    CountResults(results, [passed |-> 0, failed |-> 0, skipped |-> 0]).failed = 0

\* ------------------------------------------------------- model_monitor.py
Monitors == {1, 2}
Classes == {"cat", "dog"}
\* actual_class: a class or None (no ground truth)
ActualClasses == Classes \cup {"None"}
\* confidence: a float or None
Confidences == {"0.9", "None"}
\* thresholds passed to check_model_drift (percentage points)
Thresholds == {0, DefaultThreshold, 40}

\* a quotient n / d as computed by "/"; d = 0 is a division by zero
Ratio(n, d) == [num |-> n, den |-> d]

\* log_prediction: the entry built from the arguments at time t
PredictionEntry(t, predicted, actual, confidence) ==
    [timestamp |-> t,
     image_path |-> "image.jpg",
     predicted_class |-> predicted,
     actual_class |-> actual,
     confidence |-> confidence,
     correct |-> IF actual # "None"
                 THEN (IF actual = predicted THEN "True" ELSE "False")
                 ELSE "None"]

\* variant: the new entry replaces the list
AppendEntry_Replace(log, e) == << e >>

\* log_prediction: self.predictions_log.append(prediction_entry)
AppendEntry(log, e) == Append(log, e)

\* _save_logs: the document written from the writer's in-memory list
Document(log) ==
    [state |-> "ok", total_predictions |-> Len(log), predictions |-> log]

NoFile == [state |-> "missing", total_predictions |-> 0, predictions |-> << >>]
\* a document with one record, stored earlier, that can no longer be read
UnreadableFile ==
    [state |-> "corrupt", total_predictions |-> 1,
     predictions |-> << [timestamp |-> 0, image_path |-> "image.jpg",
                         predicted_class |-> "cat", actual_class |-> "cat",
                         confidence |-> "0.9", correct |-> "True"] >>]
CorruptFile == [state |-> "corrupt", total_predictions |-> 0, predictions |-> << >>]

\* _load_existing_logs: the list a new monitor starts with
LoadExistingLogs(file) ==
    IF file.state = "ok" THEN file.predictions ELSE << >>

\* log_prediction: the logger.info line formats confidence with ":.2f", which
\* raises TypeError for None
LogPredictionReturn(confidence) ==
    IF confidence = "None" THEN "TypeError" ELSE "None"

IsLabeled(p) == p.actual_class # "None"
IsCorrect(p) == p.correct = "True"

\* get_performance_metrics: datetime.fromisoformat(p['timestamp']) > now - 24h
IsRecent(p, t) == p.timestamp + RecentWindow > t

EmptySnapshot ==
    [empty |-> TRUE,
     overall_accuracy |-> Ratio(0, 1),
     total_predictions |-> 0,
     recent_accuracy_24h |-> Ratio(0, 1),
     recent_predictions_24h |-> 0,
     class_accuracy |-> [c \in {} |-> Ratio(0, 1)]]

\* get_performance_metrics, from "df = pd.DataFrame(labeled_predictions)" on;
\* the accuracies are 100 * num / den
ComputeMetrics(labeled, t) ==
    LET IsRecentAt(p) == IsRecent(p, t)
        IsRecentCorrect(p) == IsRecent(p, t) /\ IsCorrect(p)
        recent == Len(SelectSeq(labeled, IsRecentAt))
        present == {labeled[k].actual_class : k \in DOMAIN labeled}
    IN  [empty |-> FALSE,
         overall_accuracy |-> Ratio(Len(SelectSeq(labeled, IsCorrect)), Len(labeled)),
         total_predictions |-> Len(labeled),
         recent_accuracy_24h |->
             IF recent > 0 THEN Ratio(Len(SelectSeq(labeled, IsRecentCorrect)), recent)
             ELSE Ratio(0, 1),
         recent_predictions_24h |-> recent,
         class_accuracy |->
             [c \in present |->
                 LET InClass(p) == p.actual_class = c
                     InClassCorrect(p) == p.actual_class = c /\ IsCorrect(p)
                 IN  Ratio(Len(SelectSeq(labeled, InClassCorrect)),
                           Len(SelectSeq(labeled, InClass)))]]

\* variant: the two early returns are missing
GetPerformanceMetrics_NoGuard(log, t) ==
    ComputeMetrics(SelectSeq(log, IsLabeled), t)

\* variant: the entries are not filtered by actual_class
GetPerformanceMetrics_NoFilter(log, t) ==
    IF log = << >> THEN EmptySnapshot ELSE ComputeMetrics(log, t)

\* get_performance_metrics
GetPerformanceMetrics(log, t) ==
    IF log = << >> THEN EmptySnapshot
    ELSE LET labeled == SelectSeq(log, IsLabeled)
         IN  IF labeled = << >> THEN EmptySnapshot
             ELSE ComputeMetrics(labeled, t)

\* variant: no "if recent_acc == 0" test
CheckModelDrift_NoRecentTest(metrics, threshold) ==
    IF metrics.empty THEN FALSE
    ELSE LET o == metrics.overall_accuracy
             r == metrics.recent_accuracy_24h
         IN  100 * o.num * r.den > threshold * o.den * r.den + 100 * r.num * o.den

\* check_model_drift: drift = overall_acc - recent_acc > threshold, with
\* overall_acc = 100 * o.num / o.den and recent_acc = 100 * r.num / r.den
CheckModelDrift(metrics, threshold) ==
    IF metrics.empty THEN FALSE
    ELSE LET o == metrics.overall_accuracy
             r == metrics.recent_accuracy_24h
         IN  IF r.num = 0 THEN FALSE
             ELSE 100 * o.num * r.den > threshold * o.den * r.den + 100 * r.num * o.den

\* test_with_known_images --------------------------------------------------
\* directory sizes tried
DirSizes == {0, 1, MaxDirImages}

\* what one POST /predict of test_with_known_images produces: 200 with a
\* predicted class and a confidence, another status, or an exception
KnownResponses == {"cat", "dog", "non200", "raise"}

Smaller(a, b) == IF a <= b THEN a ELSE b

\* variant: every image of the class directories is tested
KnownImages_NoCap(dir) ==
    [k \in 1..(dir.cat + dir.dog) |-> IF k <= dir.cat THEN "cat" ELSE "dog"]

\* test_with_known_images: the first 5 images of cat/, then the first 5 of dog/
KnownImages(dir) ==
    LET cats == Smaller(dir.cat, SampleSize)
        dogs == Smaller(dir.dog, SampleSize)
    IN  [k \in 1..(cats + dogs) |-> IF k <= cats THEN "cat" ELSE "dog"]

NoDir == [exists |-> FALSE, cat |-> 0, dog |-> 0]
NoAccuracy == [kind |-> "none", accuracy |-> Ratio(0, 1)]

\* test_with_known_images: the value returned after the loop (the accuracy is
\* 100 * num / den)
KnownAccuracy(correct, total) ==
    IF total > 0 THEN [kind |-> "accuracy", accuracy |-> Ratio(correct, total)]
    ELSE [kind |-> "accuracy", accuracy |-> Ratio(0, 1)]

\* ------------------------------------------- post_deployment_eval.py
\* what one POST /predict of predict_batch produces
PredictResponses == {"cat", "dog", "non200", "raise"}

\* load_test_data: the cat images, then the dog images
LoadTestData(cats, dogs) ==
    [k \in 1..(cats + dogs) |-> IF k <= cats THEN "cat" ELSE "dog"]

\* predict_batch, one image: a 200 answer is appended, anything else dropped
PredictBatchStep(preds, image, resp) ==
    IF resp \in Classes
    THEN Append(preds, [image |-> image, predicted_class |-> resp])
    ELSE preds

\* variant: only a surplus of predictions is rejected
LengthMismatch_SurplusOnly(preds, labels) == Len(preds) > Len(labels)

\* variant: evaluate_performance without its length check
LengthMismatch_Unchecked(preds, labels) == FALSE

\* evaluate_performance: if len(predictions) != len(true_labels): raise ValueError
LengthMismatch(preds, labels) == Len(preds) # Len(labels)

Min(a, b) == IF a <= b THEN a ELSE b

\* zip(predictions, true_labels): the positions paired up
Zipped(preds, labels) == 1..Min(Len(preds), Len(labels))

\* no results dictionary
NoSummary ==
    [overall_accuracy |-> Ratio(0, 1), total_predictions |-> 0,
     correct_predictions |-> 0, cat_accuracy |-> Ratio(0, 1),
     dog_accuracy |-> Ratio(0, 1), cat_correct |-> 0, dog_correct |-> 0,
     cat_total |-> 0, dog_total |-> 0]

\* evaluate_performance after the length check
EvaluatePerformance(preds, labels) ==
    LET total == Len(preds)
        correct == Cardinality({k \in Zipped(preds, labels) :
                                   preds[k].predicted_class = labels[k]})
        classCorrect(c) == Cardinality({k \in Zipped(preds, labels) :
                                   preds[k].predicted_class = c /\ labels[k] = c})
        classTotal(c) == Cardinality({k \in DOMAIN labels : labels[k] = c})
        accuracy(n, d) == IF d > 0 THEN Ratio(n, d) ELSE Ratio(0, 1)
    IN  [overall_accuracy |-> accuracy(correct, total),
         total_predictions |-> total,
         correct_predictions |-> correct,
         cat_accuracy |-> accuracy(classCorrect("cat"), classTotal("cat")),
         dog_accuracy |-> accuracy(classCorrect("dog"), classTotal("dog")),
         cat_correct |-> classCorrect("cat"),
         dog_correct |-> classCorrect("dog"),
         cat_total |-> classTotal("cat"),
         dog_total |-> classTotal("dog")]

\* the output file of save_results
NoOutputFile == [state |-> "absent", doc |-> NoSummary]

\* save_results: open(output_file, 'w') and json.dump
SaveResults(res, file, writes) ==
    IF writes THEN [state |-> "written", doc |-> res] ELSE file

\* ------------------------------------------------------------------ state
\* test_with_known_images is not running
NoKnownTest ==
    /\ test_dir = NoDir
    /\ test_images = << >>
    /\ knownPc = "idle"
    /\ knownIdx = 0
    /\ knownResp = "none"
    /\ knownTotal = 0
    /\ knownCorrect = 0
    /\ knownRet = NoAccuracy

\* no evaluator object exists
NoEvaluator ==
    /\ true_labels = << >>
    /\ save_to_file = FALSE
    /\ evalPc = "idle"
    /\ evalIdx = 0
    /\ predictions = << >>
    /\ summary = NoSummary
    /\ evalRet = "none"
    /\ output_file = NoOutputFile
    /\ evalRuns = 0

\* no monitor object exists
NoMonitor ==
    /\ now = 0
    /\ log_file = NoFile
    /\ constructed = [m \in Monitors |-> FALSE]
    /\ predictions_log = [m \in Monitors |-> << >>]
    /\ appends = 0
    /\ appendLimit = 0
    /\ lastOp = [op |-> "none", m |-> 0, arg |-> 0]
    /\ logRet = "none"
    /\ saved = FALSE
    /\ snapshot = EmptySnapshot
    /\ driftRet = FALSE
    /\ NoKnownTest

Init ==
    /\ deployment_type \in DeploymentTypes
    /\ entry = "none"
    /\ run_tests = FALSE
    /\ pc = "idle"
    /\ executed = << >>
    /\ max_wait = 0
    /\ i = 0
    /\ polls = 0
    /\ lastPoll = "none"
    /\ sawHealthy = FALSE
    /\ sawNetErr = FALSE
    /\ suiteRuns = 0
    /\ test_results = << >>
    /\ svc = 1
    /\ ret = "none"
    /\ failedAt = "none"
    /\ lastPrint = "none"
    /\ calls = 0
    /\ observed = {}
    /\ probeResp = "none"
    /\ NoMonitor
    /\ NoEvaluator

\* the call returns r; where = the step deploy gave up at; msg = last line printed
Finish(r, where, msg) ==
    /\ pc' = "done"
    /\ ret' = r
    /\ failedAt' = where
    /\ lastPrint' = msg

\* deploy returns False at step where
FailDeploy(where, msg, done) ==
    /\ Finish("False", where, msg)
    /\ executed' = done \o DeployFailureCommands(deployment_type)

\* deploy(run_tests): dispatch on self.deployment_type
CallDeploy ==
    /\ pc = "idle"
    /\ calls < MaxCalls
    /\ \E rt \in BOOLEAN : run_tests' = rt
    /\ entry' = "deploy"
    /\ max_wait' = DefaultMaxWait
    /\ IF deployment_type \in {"docker", "k8s"}
       THEN /\ pc' = "commands"
            /\ UNCHANGED <<ret, failedAt, lastPrint>>
       ELSE Finish("False", "type", "Unknown deployment type")
    /\ UNCHANGED <<deployment_type, executed, i, polls, lastPoll, sawHealthy,
                   sawNetErr, suiteRuns, test_results, svc, calls, observed>>
    /\ UNCHANGED probeResp
    /\ UNCHANGED <<monVars, evalVars>>

\* one iteration of "for cmd in commands" in deploy_docker_compose / deploy_kubernetes
RunCommandStep ==
    /\ pc = "commands"
    /\ \E outcome \in CmdOutcomes :
         LET idx == Len(executed) + 1
             cmds == Commands(deployment_type)
             r == RunCommand(outcome, TRUE)
             next == NextAfterCommand(r.ok, idx, Len(cmds))
             done == Append(executed, [cmd |-> cmds[idx], ok |-> r.ok])
         IN  IF next = "done"
             THEN FailDeploy("command", r.msg, done)
             ELSE /\ executed' = done
                  /\ pc' = next
                  /\ lastPrint' = r.msg
                  /\ UNCHANGED <<ret, failedAt>>
    /\ UNCHANGED <<deployment_type, entry, run_tests, max_wait, i, polls, lastPoll,
                   sawHealthy, sawNetErr, suiteRuns, test_results, svc, calls, observed>>
    /\ UNCHANGED probeResp
    /\ UNCHANGED <<monVars, evalVars>>

\* wait_for_deployment(max_wait) called directly
CallWait ==
    /\ pc = "idle"
    /\ calls < MaxCalls
    /\ \E mw \in 0..MaxWaitArg : max_wait' = mw
    /\ entry' = "wait"
    /\ pc' = "waiting"
    /\ UNCHANGED <<deployment_type, run_tests, executed, i, polls, lastPoll,
                   sawHealthy, sawNetErr, suiteRuns, test_results, svc, ret,
                   failedAt, lastPrint, calls, observed>>
    /\ UNCHANGED probeResp
    /\ UNCHANGED <<monVars, evalVars>>

\* one iteration of "for i in range(max_wait // 10)": one GET /health
Poll ==
    /\ pc = "waiting"
    /\ i < WaitAttempts(max_wait)
    /\ \E resp \in HealthResponses :
         /\ polls' = polls + 1
         /\ lastPoll' = resp
         /\ sawHealthy' = (sawHealthy \/ resp = "healthy200")
         /\ sawNetErr' = (sawNetErr \/ resp = "neterr")
         /\ IF PollStep(resp) = "return"
            THEN LET next == IF entry = "deploy" THEN AfterWait(TRUE, run_tests)
                             ELSE "done"
                 IN  IF next = "done"
                     THEN /\ Finish("True", "none",
                                    IF entry = "deploy"
                                    THEN "Deployment completed successfully!"
                                    ELSE "Deployment is ready!")
                          /\ i' = i
                     ELSE /\ pc' = next
                          /\ lastPrint' = "Deployment is ready!"
                          /\ i' = i
                          /\ UNCHANGED <<ret, failedAt>>
            ELSE IF PollStep(resp) = "continue"
            THEN /\ i' = i + 1
                 /\ lastPrint' = "Waiting..."
                 /\ UNCHANGED <<pc, ret, failedAt>>
            ELSE /\ Finish("raised", IF entry = "deploy" THEN "health" ELSE "none",
                           "Traceback")
                 /\ i' = i
    /\ UNCHANGED <<deployment_type, entry, run_tests, executed, max_wait, suiteRuns,
                   test_results, svc, calls, observed>>
    /\ UNCHANGED probeResp
    /\ UNCHANGED <<monVars, evalVars>>

\* the loop is exhausted: "Deployment timeout!", return False (and deploy
\* returns False in turn)
WaitTimeout ==
    /\ pc = "waiting"
    /\ i >= WaitAttempts(max_wait)
    /\ IF entry = "deploy"
       THEN FailDeploy("health", "Deployment timeout!", executed)
       ELSE /\ Finish("False", "none", "Deployment timeout!")
            /\ UNCHANGED executed
    /\ UNCHANGED <<deployment_type, entry, run_tests, max_wait, i, polls,
                   lastPoll, sawHealthy, sawNetErr, suiteRuns, test_results, svc,
                   calls, observed>>
    /\ UNCHANGED probeResp
    /\ UNCHANGED <<monVars, evalVars>>

\* run_smoke_tests: the import or the construction of SmokeTest may raise
\* (caught: "Smoke tests failed", return False); otherwise a fresh SmokeTest
\* with an empty test_results starts run_all_tests
SmokeStart ==
    /\ pc = "smoke_start"
    /\ suiteRuns' = suiteRuns + 1
    /\ \E raises \in BOOLEAN :
         IF raises
         THEN /\ FailDeploy("smoke", "Smoke tests failed", executed)
              /\ UNCHANGED test_results
         ELSE /\ pc' = "health"
              /\ test_results' = << >>
              /\ lastPrint' = "Running MLOps Pipeline Smoke Tests"
              /\ UNCHANGED <<ret, failedAt, executed>>
    /\ UNCHANGED <<deployment_type, entry, run_tests, max_wait, i, polls,
                   lastPoll, sawHealthy, sawNetErr, svc, calls, observed>>
    /\ UNCHANGED probeResp
    /\ UNCHANGED <<monVars, evalVars>>

\* test_health_endpoint
TestHealth ==
    /\ pc = "health"
    /\ \E resp \in HealthResponses :
         /\ test_results' = Append(test_results, <<"Health Check", HealthStatus(resp)>>)
         /\ probeResp' = resp
         /\ pc' = AfterProbe(HealthStatus(resp), "prediction")
    /\ UNCHANGED <<deployment_type, entry, run_tests, executed, max_wait, i, polls,
                   lastPoll, sawHealthy, sawNetErr, suiteRuns, svc, ret, failedAt,
                   lastPrint, calls, observed>>
    /\ UNCHANGED <<monVars, evalVars>>

\* test_prediction_endpoint
TestPrediction ==
    /\ pc = "prediction"
    /\ \E resp \in PredictionResponses :
         /\ test_results' = Append(test_results, <<"Prediction", PredictionStatus(resp)>>)
         /\ probeResp' = resp
         /\ pc' = AfterProbe(PredictionStatus(resp), "metrics")
    /\ UNCHANGED <<deployment_type, entry, run_tests, executed, max_wait, i, polls,
                   lastPoll, sawHealthy, sawNetErr, suiteRuns, svc, ret, failedAt,
                   lastPrint, calls, observed>>
    /\ UNCHANGED <<monVars, evalVars>>

\* test_metrics_endpoint
TestMetrics ==
    /\ pc = "metrics"
    /\ \E resp \in MetricsResponses :
         /\ test_results' = Append(test_results, <<"Metrics", MetricsStatus(resp)>>)
         /\ probeResp' = resp
         /\ pc' = AfterProbe(MetricsStatus(resp), "monitoring")
    /\ svc' = 1
    /\ UNCHANGED <<deployment_type, entry, run_tests, executed, max_wait, i, polls,
                   lastPoll, sawHealthy, sawNetErr, suiteRuns, ret, failedAt,
                   lastPrint, calls, observed>>
    /\ UNCHANGED <<monVars, evalVars>>

\* test_monitoring_services: one iteration of "for service_name, url in ..."
TestMonitoring ==
    /\ pc = "monitoring"
    /\ \E resp \in ServiceResponses :
         LET name == MonitoringServices[svc]
         IN  /\ test_results' = Append(test_results, <<name, ServiceStatus(name, resp)>>)
             /\ probeResp' = resp
    /\ IF svc = Len(MonitoringServices)
       THEN pc' = "aggregate" /\ svc' = 1
       ELSE pc' = "monitoring" /\ svc' = svc + 1
    /\ UNCHANGED <<deployment_type, entry, run_tests, executed, max_wait, i, polls,
                   lastPoll, sawHealthy, sawNetErr, suiteRuns, ret, failedAt,
                   lastPrint, calls, observed>>
    /\ UNCHANGED <<monVars, evalVars>>

\* run_all_tests: count the results and return; run_smoke_tests passes the
\* value on and deploy returns False on a failed suite, True otherwise
Aggregate ==
    /\ pc = "aggregate"
    /\ IF entry = "deploy"
       THEN IF RunAllTests(test_results)
            THEN /\ Finish("True", "none", "Deployment completed successfully!")
                 /\ UNCHANGED executed
            ELSE FailDeploy("smoke", "tests failed. Check deployment.", executed)
       ELSE /\ IF RunAllTests(test_results)
               THEN Finish("True", "none", "All critical tests passed!")
               ELSE Finish("False", "none", "tests failed. Check deployment.")
            /\ UNCHANGED executed
    /\ UNCHANGED <<deployment_type, entry, run_tests, max_wait, i, polls,
                   lastPoll, sawHealthy, sawNetErr, suiteRuns, test_results, svc,
                   calls, observed>>
    /\ UNCHANGED probeResp
    /\ UNCHANGED <<monVars, evalVars>>

\* rollback(): one run_command of the teardown command, result ignored
CallRollback ==
    /\ pc = "idle"
    /\ calls < MaxCalls
    /\ entry' = "rollback"
    /\ IF deployment_type \in {"docker", "k8s"}
       THEN \E outcome \in CmdOutcomes :
              executed' = << [cmd |-> RollbackCommand(deployment_type),
                              ok |-> RunCommand(outcome, TRUE).ok] >>
       ELSE executed' = << >>
    /\ Finish("None", "none", "Rollback completed")
    /\ UNCHANGED <<deployment_type, run_tests, max_wait, i, polls, lastPoll,
                   sawHealthy, sawNetErr, suiteRuns, test_results, svc, calls,
                   observed>>
    /\ UNCHANGED probeResp
    /\ UNCHANGED <<monVars, evalVars>>

\* the caller receives the value; the next call starts from fresh locals
Return ==
    /\ pc = "done"
    /\ pc' = "idle"
    /\ calls' = calls + 1
    /\ observed' = IF entry = "deploy"
                   THEN observed \cup {<<ret, lastPrint, failedAt>>}
                   ELSE observed
    /\ entry' = "none"
    /\ run_tests' = FALSE
    /\ executed' = << >>
    /\ max_wait' = 0
    /\ i' = 0
    /\ polls' = 0
    /\ lastPoll' = "none"
    /\ sawHealthy' = FALSE
    /\ sawNetErr' = FALSE
    /\ suiteRuns' = 0
    /\ test_results' = << >>
    /\ svc' = 1
    /\ ret' = "none"
    /\ failedAt' = "none"
    /\ lastPrint' = "none"
    /\ UNCHANGED deployment_type
    /\ probeResp' = "none"
    /\ UNCHANGED <<monVars, evalVars>>

Next ==
    \/ CallDeploy
    \/ RunCommandStep
    \/ CallWait
    \/ Poll
    \/ WaitTimeout
    \/ SmokeStart
    \/ TestHealth
    \/ TestPrediction
    \/ TestMetrics
    \/ TestMonitoring
    \/ Aggregate
    \/ CallRollback
    \/ Return

Spec == Init /\ [][Next]_vars

\* ------------------------------------------- a SmokeTest object on its own
\* SmokeTest(base_url): test_results = []
InitSmoke ==
    /\ deployment_type = "none"
    /\ entry = "none"
    /\ run_tests = FALSE
    /\ pc = "idle"
    /\ executed = << >>
    /\ max_wait = 0
    /\ i = 0
    /\ polls = 0
    /\ lastPoll = "none"
    /\ sawHealthy = FALSE
    /\ sawNetErr = FALSE
    /\ suiteRuns = 0
    /\ test_results = << >>
    /\ svc = 1
    /\ ret = "none"
    /\ failedAt = "none"
    /\ lastPrint = "none"
    /\ calls = 0
    /\ observed = {}
    /\ probeResp = "none"
    /\ NoMonitor
    /\ NoEvaluator

\* run_all_tests() called on the object: the probes append to the
\* test_results the object already holds
CallRunAllTests ==
    /\ pc = "idle"
    /\ calls < MaxRuns
    /\ entry' = "smoke"
    /\ pc' = "health"
    /\ suiteRuns' = suiteRuns + 1
    /\ lastPrint' = "Running MLOps Pipeline Smoke Tests"
    /\ UNCHANGED <<deployment_type, run_tests, executed, max_wait, i, polls, lastPoll,
                   sawHealthy, sawNetErr, test_results, svc, ret, failedAt, calls,
                   observed>>
    /\ UNCHANGED probeResp
    /\ UNCHANGED <<monVars, evalVars>>

\* run_all_tests returns to its caller; the object keeps its test_results
ReturnSmoke ==
    /\ pc = "done"
    /\ pc' = "idle"
    /\ calls' = calls + 1
    /\ entry' = "none"
    /\ ret' = "none"
    /\ lastPrint' = "none"
    /\ UNCHANGED <<deployment_type, run_tests, executed, max_wait, i, polls, lastPoll,
                   sawHealthy, sawNetErr, suiteRuns, test_results, svc, failedAt,
                   observed>>
    /\ probeResp' = "none"
    /\ UNCHANGED <<monVars, evalVars>>

NextSmoke ==
    \/ CallRunAllTests
    \/ TestHealth
    \/ TestPrediction
    \/ TestMetrics
    \/ TestMonitoring
    \/ Aggregate
    \/ ReturnSmoke

SmokeSpec == InitSmoke /\ [][NextSmoke]_vars

\* ------------------------------------------- deploy() calls that return
\* a step of the running deploy(): one command, one request, or the counting
DeployStep ==
    \/ RunCommandStep
    \/ Poll
    \/ WaitTimeout
    \/ SmokeStart
    \/ TestHealth
    \/ TestPrediction
    \/ TestMetrics
    \/ TestMonitoring
    \/ Aggregate

NextDeploy ==
    \/ CallDeploy
    \/ DeployStep
    \/ Return

\* every external command and every HTTP request of a running call returns
\* (subprocess.run completes, requests.get/post answer or raise at their timeout)
TerminatingSpec == Init /\ [][NextDeploy]_vars /\ WF_vars(DeployStep)

\* ------------------------------------ monitors on one prediction log file
\* no deployment manager and no smoke test object exists
NoManager ==
    /\ deployment_type = "none"
    /\ entry = "none"
    /\ run_tests = FALSE
    /\ pc = "idle"
    /\ executed = << >>
    /\ max_wait = 0
    /\ i = 0
    /\ polls = 0
    /\ lastPoll = "none"
    /\ sawHealthy = FALSE
    /\ sawNetErr = FALSE
    /\ suiteRuns = 0
    /\ test_results = << >>
    /\ svc = 1
    /\ ret = "none"
    /\ failedAt = "none"
    /\ lastPrint = "none"
    /\ calls = 0
    /\ observed = {}
    /\ probeResp = "none"

\* the log file is absent or unreadable, no monitor is constructed yet
NoMonitorYet(limit) ==
    /\ now = 0
    /\ log_file \in {NoFile, CorruptFile, UnreadableFile}
    /\ constructed = [m \in Monitors |-> FALSE]
    /\ predictions_log = [m \in Monitors |-> << >>]
    /\ appends = 0
    /\ appendLimit = limit
    /\ lastOp = [op |-> "none", m |-> 0, arg |-> 0]
    /\ logRet = "none"
    /\ saved = FALSE
    /\ snapshot = EmptySnapshot
    /\ driftRet = FALSE
    /\ NoKnownTest

InitMonitor == NoManager /\ NoMonitorYet(MaxLog) /\ NoEvaluator

\* the results of the methods that did not run in this step
NoLogResult == logRet' = "none" /\ saved' = FALSE
NoMetricsResult == snapshot' = EmptySnapshot /\ driftRet' = FALSE

\* ModelPerformanceMonitor(api_url): __init__ and _load_existing_logs
Construct(m) ==
    /\ ~constructed[m]
    /\ constructed' = [constructed EXCEPT ![m] = TRUE]
    /\ predictions_log' = [predictions_log EXCEPT ![m] = LoadExistingLogs(log_file)]
    /\ lastOp' = [op |-> "__init__", m |-> m, arg |-> 0]
    /\ NoLogResult
    /\ NoMetricsResult
    /\ UNCHANGED <<now, log_file, appends, appendLimit, deployVars, evalVars,
                   knownVars>>

\* the process holding monitor m ends; the file stays
Exit(m) ==
    /\ constructed[m]
    /\ constructed' = [constructed EXCEPT ![m] = FALSE]
    /\ predictions_log' = [predictions_log EXCEPT ![m] = << >>]
    /\ lastOp' = [op |-> "exit", m |-> m, arg |-> 0]
    /\ NoLogResult
    /\ NoMetricsResult
    /\ UNCHANGED <<now, log_file, appends, appendLimit, deployVars, evalVars,
                   knownVars>>

\* variant: the new entry is added to the list found in the file
SaveLogs_AppendToFile(log, file, writes) ==
    IF writes
    THEN Document(LoadExistingLogs(file) \o << log[Len(log)] >>)
    ELSE file

\* _save_logs: the whole list is written over the file; when the write
\* raises, the error is logged and the file keeps its content
SaveLogs(log, file, writes) ==
    IF writes THEN Document(log) ELSE file

\* log_prediction(image_path, predicted_class, actual_class, confidence), with
\* the confidence drawn from confidences and the fate of the write from outcomes
LogPredictionWith(m, confidences, outcomes) ==
    /\ constructed[m]
    /\ appends < appendLimit
    /\ \E predicted \in Classes, actual \in ActualClasses,
          confidence \in confidences, writes \in outcomes :
         LET new == AppendEntry(predictions_log[m],
                                PredictionEntry(now, predicted, actual, confidence))
         IN  /\ predictions_log' = [predictions_log EXCEPT ![m] = new]
             /\ log_file' = SaveLogs(new, log_file, writes)
             /\ saved' = writes
             /\ logRet' = LogPredictionReturn(confidence)
    /\ appends' = appends + 1
    /\ lastOp' = [op |-> "log_prediction", m |-> m, arg |-> 0]
    /\ NoMetricsResult
    /\ UNCHANGED <<now, constructed, appendLimit, deployVars, evalVars,
                   knownVars>>

LogPrediction(m) == LogPredictionWith(m, Confidences, BOOLEAN)

\* variant: the metrics call also writes the log file
GetMetrics_Saves(m) ==
    /\ constructed[m]
    /\ snapshot' = GetPerformanceMetrics(predictions_log[m], now)
    /\ driftRet' = FALSE
    /\ lastOp' = [op |-> "get_performance_metrics", m |-> m, arg |-> 0]
    /\ NoLogResult
    /\ log_file' = Document(predictions_log[m])
    /\ UNCHANGED <<now, constructed, predictions_log, appends, appendLimit,
                   deployVars, evalVars, knownVars>>

\* get_performance_metrics()
GetMetrics(m) ==
    /\ constructed[m]
    /\ snapshot' = GetPerformanceMetrics(predictions_log[m], now)
    /\ driftRet' = FALSE
    /\ lastOp' = [op |-> "get_performance_metrics", m |-> m, arg |-> 0]
    /\ NoLogResult
    /\ UNCHANGED <<now, log_file, constructed, predictions_log, appends, appendLimit,
                   deployVars, evalVars,
                   knownVars>>

\* generate_performance_report(): the metrics the report text is made of
GenerateReport(m) ==
    /\ constructed[m]
    /\ snapshot' = GetPerformanceMetrics(predictions_log[m], now)
    /\ driftRet' = FALSE
    /\ lastOp' = [op |-> "generate_performance_report", m |-> m, arg |-> 0]
    /\ NoLogResult
    /\ UNCHANGED <<now, log_file, constructed, predictions_log, appends, appendLimit,
                   deployVars, evalVars, knownVars>>

\* check_model_drift(threshold)
CheckDrift(m) ==
    /\ constructed[m]
    /\ \E threshold \in Thresholds :
         LET metrics == GetPerformanceMetrics(predictions_log[m], now)
         IN  /\ snapshot' = metrics
             /\ driftRet' = CheckModelDrift(metrics, threshold)
             /\ lastOp' = [op |-> "check_model_drift", m |-> m, arg |-> threshold]
    /\ NoLogResult
    /\ UNCHANGED <<now, log_file, constructed, predictions_log, appends, appendLimit,
                   deployVars, evalVars,
                   knownVars>>

\* time passes between two calls
Tick ==
    /\ now + RecentWindow \div 2 <= MaxClock
    /\ now' = now + RecentWindow \div 2
    /\ lastOp' = [op |-> "none", m |-> 0, arg |-> 0]
    /\ NoLogResult
    /\ NoMetricsResult
    /\ UNCHANGED <<log_file, constructed, predictions_log, appends, appendLimit,
                   deployVars, evalVars,
                   knownVars>>

NextMonitor ==
    \/ Construct(1)
    \/ Exit(1)
    \/ LogPrediction(1)
    \/ GetMetrics(1)
    \/ GenerateReport(1)
    \/ CheckDrift(1)

MonitorSpec == InitMonitor /\ [][NextMonitor]_vars

\* one monitor, constructed where no log file exists, used over a period of
\* time; every prediction carries a confidence and every write succeeds (the
\* accuracy figures read neither the confidence nor the file)
InitMetrics ==
    /\ NoManager
    /\ now = 0
    /\ log_file = NoFile
    /\ constructed = [m \in Monitors |-> m = 1]
    /\ predictions_log = [m \in Monitors |-> << >>]
    /\ appends = 0
    /\ appendLimit = MaxLog
    /\ lastOp = [op |-> "__init__", m |-> 1, arg |-> 0]
    /\ logRet = "none"
    /\ saved = FALSE
    /\ snapshot = EmptySnapshot
    /\ driftRet = FALSE
    /\ NoKnownTest
    /\ NoEvaluator

NextMetrics ==
    \/ LogPredictionWith(1, {"0.9"}, {TRUE})
    \/ GetMetrics(1)
    \/ CheckDrift(1)
    \/ Tick

MetricsSpec == InitMetrics /\ [][NextMetrics]_vars

\* two monitors constructed on the same file, each logging predictions
InitWriters == NoManager /\ NoMonitorYet(MaxWriterAppends) /\ NoEvaluator

\* every write succeeds
NextWriters ==
    \/ \E m \in Monitors : Construct(m)
    \/ \E m \in Monitors : LogPredictionWith(m, Confidences, {TRUE})

WritersSpec == InitWriters /\ [][NextWriters]_vars

\* --------------------------------- test_with_known_images on one monitor
\* monitor 1 constructed where no log file exists; every write succeeds
InitKnown ==
    /\ NoManager
    /\ now = 0
    /\ log_file = NoFile
    /\ constructed = [m \in Monitors |-> m = 1]
    /\ predictions_log = [m \in Monitors |-> << >>]
    /\ appends = 0
    /\ appendLimit = 2 * SampleSize
    /\ lastOp = [op |-> "__init__", m |-> 1, arg |-> 0]
    /\ logRet = "none"
    /\ saved = FALSE
    /\ snapshot = EmptySnapshot
    /\ driftRet = FALSE
    /\ NoKnownTest
    /\ NoEvaluator

\* test_with_known_images(test_images_dir): the directory check and the
\* collection of the images
CallTestKnown ==
    /\ knownPc = "idle"
    /\ lastOp.op = "__init__"
    /\ \E exists \in BOOLEAN, cats \in DirSizes, dogs \in DirSizes :
         /\ test_dir' = IF exists THEN [exists |-> TRUE, cat |-> cats, dog |-> dogs]
                        ELSE NoDir
         /\ IF exists
            THEN /\ test_images' = KnownImages(test_dir')
                 /\ knownPc' = "requests"
                 /\ knownRet' = NoAccuracy
            ELSE /\ test_images' = << >>
                 /\ knownPc' = "done"
                 /\ knownRet' = [kind |-> "None", accuracy |-> Ratio(0, 1)]
    /\ knownIdx' = 0
    /\ knownResp' = "none"
    /\ knownTotal' = 0
    /\ knownCorrect' = 0
    /\ lastOp' = [op |-> "test_with_known_images", m |-> 1, arg |-> 0]
    /\ UNCHANGED <<now, log_file, constructed, predictions_log, appends, appendLimit,
                   logRet, saved, snapshot, driftRet, deployVars, evalVars>>

\* one iteration of "for image_path, actual_class in test_images": one POST
\* /predict; a 200 answer is logged with log_prediction and counted
KnownRequest ==
    /\ knownPc = "requests"
    /\ knownIdx < Len(test_images)
    /\ \E resp \in KnownResponses :
         LET actual == test_images[knownIdx + 1]
             new == AppendEntry(predictions_log[1],
                                PredictionEntry(now, resp, actual, "0.9"))
         IN  /\ knownResp' = resp
             /\ IF resp \in Classes
                THEN /\ predictions_log' = [predictions_log EXCEPT ![1] = new]
                     /\ log_file' = SaveLogs(new, log_file, TRUE)
                     /\ saved' = TRUE
                     /\ logRet' = LogPredictionReturn("0.9")
                     /\ appends' = appends + 1
                     /\ knownTotal' = knownTotal + 1
                     /\ knownCorrect' = IF resp = actual THEN knownCorrect + 1
                                        ELSE knownCorrect
                ELSE UNCHANGED <<predictions_log, log_file, saved, logRet, appends,
                                 knownTotal, knownCorrect>>
    /\ knownIdx' = knownIdx + 1
    /\ UNCHANGED <<now, constructed, appendLimit, lastOp, snapshot, driftRet,
                   test_dir, test_images, knownPc, knownRet, deployVars, evalVars>>

\* the loop is over: the accuracy of the batch is computed and returned
KnownFinish ==
    /\ knownPc = "requests"
    /\ knownIdx = Len(test_images)
    /\ knownPc' = "done"
    /\ knownRet' = KnownAccuracy(knownCorrect, knownTotal)
    /\ UNCHANGED <<now, log_file, constructed, predictions_log, appends, appendLimit,
                   lastOp, logRet, saved, snapshot, driftRet, test_dir, test_images,
                   knownIdx, knownResp, knownTotal, knownCorrect, deployVars, evalVars>>

NextKnown ==
    \/ CallTestKnown
    \/ KnownRequest
    \/ KnownFinish

KnownSpec == InitKnown /\ [][NextKnown]_vars

\* ------------------------------------------ the post-deployment evaluator
\* PostDeploymentEvaluator(api_url, test_dir) constructed, no output file yet
InitEval ==
    /\ NoManager
    /\ NoMonitor
    /\ NoEvaluator

\* run_evaluation(save_to_file): load_test_data and the empty-directory return
CallRunEvaluation ==
    /\ evalPc = "idle"
    /\ evalRuns < MaxEvalRuns
    /\ \E cats \in 0..MaxImages, dogs \in 0..MaxImages, save \in BOOLEAN :
         /\ true_labels' = LoadTestData(cats, dogs)
         /\ save_to_file' = save
         /\ IF cats + dogs = 0
            THEN evalPc' = "done" /\ evalRet' = "None"
            ELSE evalPc' = "predict" /\ evalRet' = "none"
    /\ evalIdx' = 0
    /\ predictions' = << >>
    /\ summary' = NoSummary
    /\ evalRuns' = evalRuns + 1
    /\ UNCHANGED <<output_file, deployVars, monVars>>

\* predict_batch: the request for the next image
PredictStep ==
    /\ evalPc = "predict"
    /\ evalIdx < Len(true_labels)
    /\ \E resp \in PredictResponses :
         predictions' = PredictBatchStep(predictions, evalIdx + 1, resp)
    /\ evalIdx' = evalIdx + 1
    /\ UNCHANGED <<true_labels, save_to_file, evalPc, summary, evalRet, output_file,
                   evalRuns, deployVars, monVars>>

\* run_evaluation after predict_batch: evaluate_performance, save_results, return
Evaluate ==
    /\ evalPc = "predict"
    /\ evalIdx = Len(true_labels)
    /\ IF LengthMismatch(predictions, true_labels)
       THEN /\ evalRet' = "ValueError"
            /\ UNCHANGED <<summary, output_file>>
       ELSE /\ summary' = EvaluatePerformance(predictions, true_labels)
            /\ IF save_to_file
               THEN \E writes \in BOOLEAN :
                       /\ output_file' = SaveResults(summary', output_file, writes)
                       /\ evalRet' = IF writes THEN "results" ELSE "OSError"
               ELSE /\ evalRet' = "results"
                    /\ UNCHANGED output_file
    /\ evalPc' = "done"
    /\ UNCHANGED <<true_labels, save_to_file, evalIdx, predictions, evalRuns,
                   deployVars, monVars>>

\* the caller takes the outcome of run_evaluation
ReturnEval ==
    /\ evalPc = "done"
    /\ evalPc' = "idle"
    /\ evalRet' = "none"
    /\ true_labels' = << >>
    /\ save_to_file' = FALSE
    /\ evalIdx' = 0
    /\ predictions' = << >>
    /\ summary' = NoSummary
    /\ UNCHANGED <<output_file, evalRuns, deployVars, monVars>>

NextEval ==
    \/ CallRunEvaluation
    \/ PredictStep
    \/ Evaluate
    \/ ReturnEval

EvalSpec == InitEval /\ [][NextEval]_vars

TypeOK ==
    /\ deployment_type \in DeploymentTypes
    /\ entry \in {"none", "deploy", "rollback", "wait"}
    /\ run_tests \in BOOLEAN
    /\ pc \in {"idle", "commands", "waiting", "smoke_start", "health", "prediction",
               "metrics", "monitoring", "aggregate", "done"}
    /\ Len(executed) <= 3
    /\ i \in 0..WaitAttempts(DefaultMaxWait)
    /\ polls \in 0..WaitAttempts(DefaultMaxWait)
    /\ ret \in {"none", "True", "False", "None"}
    /\ Len(test_results) \in {0, 1, 2, 3, 4, 5, 6}
    /\ failedAt \in {"none", "type", "command", "health", "smoke"}
    /\ calls \in 0..MaxCalls

\* =================================================================== claims
\* the indices of the Fail entries of a result list
FailEntries(results) == {k \in DOMAIN results : results[k][2] = "FAIL"}
SkipEntries(results) == {k \in DOMAIN results : results[k][2] = "SKIP"}
\* a healthy response: success status and a body reporting healthy + model loaded
Healthy(resp) == resp = "healthy200"
AllCommandsSucceeded ==
    Len(executed) = 3 /\ \A k \in DOMAIN executed : executed[k].ok
Ceil(a, b) == (a + b - 1) \div b

\* the state of the rollout state machine
Phase(p, f) ==
    IF p = "idle" THEN "Init"
    ELSE IF p = "commands" THEN "RunningCommands"
    ELSE IF p = "waiting" THEN "WaitingHealthy"
    ELSE IF p # "done" THEN "RunningSmokeTests"
    ELSE IF f = "none" THEN "Succeeded"
    ELSE IF f = "health" THEN "TimedOut"
    ELSE "Failed"

\* C1: if the i-th provisioning command of deploy() fails, no later command is
\* executed, no health poll and no smoke probe is started, and deploy() ends
\* Failed (returns False at the command step).
C1_FailedCommandAborts ==
    \A k \in DOMAIN executed :
        (entry = "deploy" /\ ~executed[k].ok) =>
            /\ Len(executed) = k
            /\ polls = 0
            /\ suiteRuns = 0
            /\ test_results = << >>
            /\ pc = "done"
            /\ ret = "False"
            /\ failedAt = "command"

C1_Witness ==
    /\ entry = "deploy"
    /\ deployment_type = "k8s"
    /\ pc = "done"
    /\ Len(executed) = 2
    /\ executed[1].ok
    /\ ~executed[2].ok

C2_Allowed ==
    { <<"Init", "RunningCommands">>, <<"Init", "Failed">>,
      <<"RunningCommands", "RunningCommands">>, <<"RunningCommands", "WaitingHealthy">>,
      <<"RunningCommands", "Failed">>,
      <<"WaitingHealthy", "WaitingHealthy">>, <<"WaitingHealthy", "RunningSmokeTests">>,
      <<"WaitingHealthy", "Succeeded">>, <<"WaitingHealthy", "TimedOut">>,
      <<"RunningSmokeTests", "RunningSmokeTests">>, <<"RunningSmokeTests", "Succeeded">>,
      <<"RunningSmokeTests", "Failed">> }

C2_Step ==
    /\ (entry' = "deploy") => <<Phase(pc, failedAt), Phase(pc', failedAt')>> \in C2_Allowed
    /\ (entry = "deploy" /\ pc = "done") => (pc' = "idle" /\ entry' = "none")

C2_Order ==
    entry = "deploy" =>
        /\ \A k \in DOMAIN executed : executed[k].cmd = Commands(deployment_type)[k]
        /\ (polls > 0 => AllCommandsSucceeded)
        /\ (suiteRuns > 0 => sawHealthy)
        /\ ((pc = "done" /\ ret = "True") =>
                /\ AllCommandsSucceeded
                /\ sawHealthy
                /\ (run_tests => suiteRuns = 1 /\ Len(test_results) = 6))

\* C2: in every execution of deploy() the phases occur only in the order Init,
\* RunningCommands, WaitingHealthy, RunningSmokeTests, Succeeded: commands run
\* in their listed order, the first poll only after every command succeeded,
\* the first smoke probe only after a healthy poll, Succeeded only after all
\* of these; Succeeded, Failed and TimedOut are terminal.
C2_PhaseOrder == []C2_Order /\ [][C2_Step]_vars

\* C3: wait_for_deployment(max_wait) returns true iff some poll observed a
\* healthy response, and it performs at most ceil(max_wait / 10) polls.
C3_TrueIffHealthyPoll ==
    /\ (entry = "wait" /\ pc = "done") => (ret = "True" <=> sawHealthy)
    /\ (entry \in {"wait", "deploy"}) => polls <= Ceil(max_wait, 10)

\* C4: a poll counts as healthy only if the endpoint returns a success status
\* and a body reporting healthy with the model loaded: wait_for_deployment
\* never returns true, and deploy never goes on to the smoke tests or to
\* Succeeded, on a 200 response whose body does not say so.
C4_ReadyNeedsBody ==
    /\ (entry = "wait" /\ ret = "True") => Healthy(lastPoll)
    /\ (entry = "deploy" /\ (suiteRuns > 0 \/ (pc = "done" /\ ret = "True")))
          => Healthy(lastPoll)

C5_State ==
    entry \in {"wait", "deploy"} =>
        /\ ret # "raised"
        /\ (pc = "waiting" => i = polls)
        /\ ((pc = "waiting" /\ i < max_wait \div 10) => ENABLED Poll)
        /\ ((pc = "done" /\ lastPrint = "Deployment timeout!") =>
                (ret = "False" /\ polls = max_wait \div 10))
        /\ ((polls > 0 /\ Healthy(lastPoll)) =>
                (pc # "waiting" /\ (entry = "wait" => ret = "True")))

C5_Step ==
    (pc = "waiting" /\ polls' = polls + 1 /\ lastPoll' = "neterr") =>
        (pc' = "waiting" /\ i' = i + 1 /\ ret' = "none")

\* C5: a network error raised by a health poll never aborts the wait and never
\* reaches the caller: it counts as one non-healthy poll, the next poll is
\* made whenever attempts remain, and a healthy response on a later poll
\* makes the wait return true.
C5_NetworkErrorSwallowed == []C5_State /\ [][C5_Step]_vars

C5_Witness ==
    /\ entry = "wait"
    /\ pc = "done"
    /\ sawNetErr
    /\ polls >= 2
    /\ Healthy(lastPoll)
    /\ ret = "True"

\* C6: with smoke tests enabled, all commands succeeded and the health gate
\* passed, deploy() returns Failed whenever a probe result is Fail and
\* whenever running the suite raises.
C6_SmokeFailureFailsDeploy ==
    (entry = "deploy" /\ run_tests /\ AllCommandsSucceeded /\ suiteRuns > 0 /\ pc = "done") =>
        ((FailEntries(test_results) # {} \/ lastPrint = "Smoke tests failed") =>
            (ret = "False" /\ failedAt = "smoke"))

C6_Witness ==
    /\ entry = "deploy"
    /\ pc = "done"
    /\ Len(test_results) = 6
    /\ Cardinality(FailEntries(test_results)) = 1
    /\ ret = "False"

\* C7 as stated: the value returned by deploy() identifies the failing step
\* (two deploy calls that return the same value stopped at the same step).
C7_ReturnIdentifiesStep ==
    \A p, q \in observed : p[1] = q[1] => p[3] = q[3]

\* C7 amended: deploy() returns a boolean only: True iff every command
\* succeeded, the wait returned true and the enabled smoke suite recorded no
\* Fail, False for every failure alike; the failing step is identified by the
\* returned value together with the last diagnostic line printed.
C7_BooleanPlusDiagnostic ==
    /\ (entry = "deploy" /\ pc = "done") =>
          /\ ret \in {"True", "False"}
          /\ ret = "True" <=>
                /\ AllCommandsSucceeded
                /\ polls > 0
                /\ lastPoll \in {"healthy200", "unready200"}
                /\ run_tests => (Len(test_results) = 6 /\ FailEntries(test_results) = {})
          /\ ret = "True" <=> failedAt = "none"
    /\ \A p, q \in observed : (p[1] = q[1] /\ p[2] = q[2]) => p[3] = q[3]

C7_Witness ==
    \E p, q \in observed :
        /\ p[1] = "False" /\ q[1] = "False"
        /\ p[3] = "health" /\ q[3] = "smoke"

\* C8: deploy() never triggers rollback: whatever step fails, no external
\* command is executed after the failing step, and the commands deploy runs
\* are those of its plan only, each at its listed position.
C8_NoAutomaticRollback ==
    entry = "deploy" =>
        /\ Len(executed) <= 3
        /\ \A k \in DOMAIN executed :
              /\ executed[k].cmd = Commands(deployment_type)[k]
              /\ ~executed[k].ok => k = Len(executed)
              /\ executed[k].cmd # "kubectl rollout undo deployment/cats-dogs-inference"
              /\ executed[k].cmd = "docker-compose down" => k = 1

C8_Witness ==
    /\ entry = "deploy"
    /\ pc = "done"
    /\ failedAt \in {"health", "smoke"}
    /\ Len(executed) = 3

\* C9: rollback() executes exactly one external command, the teardown command
\* of the plan kind, polls nothing, probes nothing, and returns normally
\* whether the command succeeds, exits non-zero or raises.
C9_RollbackOneCommand ==
    (entry = "rollback" /\ deployment_type \in {"docker", "k8s"}) =>
        /\ pc = "done"
        /\ ret = "None"
        /\ Len(executed) = 1
        /\ executed[1].cmd = IF deployment_type = "docker"
                             THEN "docker-compose down"
                             ELSE "kubectl rollout undo deployment/cats-dogs-inference"
        /\ polls = 0
        /\ suiteRuns = 0
        /\ test_results = << >>

C9_Witness ==
    /\ entry = "rollback"
    /\ deployment_type = "k8s"
    /\ pc = "done"
    /\ ret = "None"
    /\ Len(executed) = 1
    /\ ~executed[1].ok

\* C10: run_all_tests() returns true iff no entry of the probe results is
\* Fail; Skip entries do not change the result.
C10_PassIffNoFail ==
    (entry = "smoke" /\ pc = "done") =>
        (ret = "True" <=> FailEntries(test_results) = {})

C10_Witness ==
    /\ entry = "smoke"
    /\ pc = "done"
    /\ ret = "True"
    /\ SkipEntries(test_results) # {}

C11_Step ==
    (pc = "monitoring") =>
        LET name == << "Grafana", "Prometheus", "MLflow" >>[svc]
            new == test_results'[Len(test_results')]
        IN  /\ Len(test_results') = Len(test_results) + 1
            /\ new[1] = name
            /\ (probeResp' = "200" => new[2] = "PASS")
            /\ (probeResp' = "non200" => new[2] = "FAIL")
            /\ (probeResp' = "neterr" =>
                    new[2] = IF name = "MLflow" THEN "SKIP" ELSE "FAIL")

\* C11: in the auxiliary-services probe a 200 response yields Pass; any other
\* HTTP status yields Fail, also for the optional service (MLflow); a
\* connection error yields Fail for Grafana and Prometheus and Skip for
\* MLflow only.
C11_AuxiliaryServiceStatus == [][C11_Step]_vars

C11_Witness ==
    /\ entry = "smoke"
    /\ pc = "aggregate"
    /\ probeResp = "non200"
    /\ test_results[Len(test_results)] = <<"MLflow", "FAIL">>
    /\ test_results[Len(test_results) - 1] = <<"Prometheus", "FAIL">>
    /\ test_results[Len(test_results) - 2] = <<"Grafana", "PASS">>

\* ---------------------------------------------------------------- monitor
\* the log of the monitor the last method ran on
OpLog == predictions_log[lastOp.m]
\* positions of the labeled, correct and recent entries of a log
LabeledIn(log) == {k \in DOMAIN log : log[k].actual_class \in {"cat", "dog"}}
CorrectIn(log) == {k \in LabeledIn(log) : log[k].predicted_class = log[k].actual_class}
RecentIn(log) == {k \in LabeledIn(log) : log[k].timestamp + 24 > now}
OfClass(log, c) == {k \in LabeledIn(log) : log[k].actual_class = c}
\* the ratio r equals n / d
RatioIs(r, n, d) == r.den > 0 /\ d > 0 /\ r.num * d = n * r.den
PairsOf(log) == [k \in DOMAIN log |-> <<log[k].predicted_class, log[k].actual_class>>]

\* C12: check_model_drift(threshold) returns false whenever no labeled record
\* lies in the last 24 hours, for every overall accuracy and every threshold.
C12_NoRecentNoDrift ==
    (lastOp.op = "check_model_drift" /\ RecentIn(OpLog) = {}) => driftRet = FALSE

C12_Witness ==
    /\ lastOp.op = "check_model_drift"
    /\ lastOp.arg = 0
    /\ RecentIn(OpLog) = {}
    /\ Cardinality(LabeledIn(OpLog)) = 2
    /\ CorrectIn(OpLog) = LabeledIn(OpLog)
    /\ driftRet = FALSE

\* C13: whenever the recent window holds at least one labeled record,
\* check_model_drift(threshold) returns true iff overall accuracy - recent
\* accuracy > threshold (percentage points), also when every recent
\* prediction is wrong.
C13_DriftIffAboveThreshold ==
    (lastOp.op = "check_model_drift" /\ RecentIn(OpLog) # {}) =>
        LET lab == Cardinality(LabeledIn(OpLog))
            cor == Cardinality(CorrectIn(OpLog))
            rlab == Cardinality(RecentIn(OpLog))
            rcor == Cardinality(RecentIn(OpLog) \cap CorrectIn(OpLog))
        IN  driftRet <=> (100 * cor * rlab > lastOp.arg * lab * rlab + 100 * rcor * lab)

\* C14: get_performance_metrics() on an empty log, or on a log without a
\* labeled record, returns the empty snapshot and divides by no zero count;
\* in every other case the labeled total it divides by is at least 1.
C14_NoDivisionByZero ==
    (lastOp.op \in {"get_performance_metrics", "check_model_drift"}) =>
        /\ snapshot.empty <=> LabeledIn(OpLog) = {}
        /\ snapshot.overall_accuracy.den >= 1
        /\ snapshot.recent_accuracy_24h.den >= 1
        /\ \A c \in DOMAIN snapshot.class_accuracy : snapshot.class_accuracy[c].den >= 1
        /\ ~snapshot.empty =>
              /\ snapshot.total_predictions >= 1
              /\ snapshot.overall_accuracy.den = snapshot.total_predictions

C14_Witness ==
    /\ lastOp.op = "get_performance_metrics"
    /\ Len(OpLog) = 2
    /\ LabeledIn(OpLog) = {}
    /\ snapshot.empty

\* C15: for a log with at least one labeled record the overall accuracy is
\* (labeled records with predicted = true label) / (labeled records), each
\* per-class accuracy is the same ratio over the records of that true label,
\* total_predictions is the number of labeled records, and unlabeled records
\* count nowhere.
C15_AccuracyFigures ==
    (lastOp.op = "get_performance_metrics" /\ LabeledIn(OpLog) # {}) =>
        /\ ~snapshot.empty
        /\ snapshot.total_predictions = Cardinality(LabeledIn(OpLog))
        /\ RatioIs(snapshot.overall_accuracy,
                   Cardinality(CorrectIn(OpLog)), Cardinality(LabeledIn(OpLog)))
        /\ DOMAIN snapshot.class_accuracy = {c \in {"cat", "dog"} : OfClass(OpLog, c) # {}}
        /\ \A c \in DOMAIN snapshot.class_accuracy :
              RatioIs(snapshot.class_accuracy[c],
                      Cardinality(OfClass(OpLog, c) \cap CorrectIn(OpLog)),
                      Cardinality(OfClass(OpLog, c)))

C15_Witness ==
    /\ lastOp.op = "get_performance_metrics"
    /\ PairsOf(OpLog) = << <<"cat", "cat">>, <<"dog", "cat">>, <<"dog", "dog">> >>
    /\ RatioIs(snapshot.overall_accuracy, 2, 3)
    /\ RatioIs(snapshot.class_accuracy["cat"], 1, 2)
    /\ RatioIs(snapshot.class_accuracy["dog"], 1, 1)

\* C16: after every call of log_prediction the persisted document equals the
\* monitor's in-memory log: the full ordered list including the new record,
\* and total_predictions equal to its length.
C16_WriteThrough ==
    (lastOp.op = "log_prediction") =>
        /\ log_file.state = "ok"
        /\ log_file.predictions = OpLog
        /\ log_file.total_predictions = Len(OpLog)

C17_Step ==
    \A m \in {1, 2} :
        (constructed[m] /\ constructed'[m]) =>
            /\ Len(predictions_log'[m]) >= Len(predictions_log[m])
            /\ SubSeq(predictions_log'[m], 1, Len(predictions_log[m])) = predictions_log[m]

\* C17: the prediction log of a monitor is append-only: over any sequence of
\* log_prediction, get_performance_metrics and check_model_drift calls the log
\* before an operation is a prefix of the log after it.
C17_AppendOnly == [][C17_Step]_vars

C17_Witness ==
    /\ lastOp.op = "check_model_drift"
    /\ Len(OpLog) = 3
    /\ OpLog[1] # OpLog[2]
    /\ OpLog[2] # OpLog[3]

\* C18: two monitors constructed on the same log file before either logs, one
\* prediction logged by each: the document holds the last writer's list only,
\* so total_predictions is smaller than the number of completed appends.
C18_LostUpdate ==
    /\ (lastOp.op = "log_prediction") => log_file = Document(OpLog)
    /\ (/\ constructed[1] /\ constructed[2]
        /\ Len(predictions_log[1]) = 1 /\ Len(predictions_log[2]) = 1
        /\ appends = 2)
          => (log_file.total_predictions = 1 /\ log_file.total_predictions < appends)

C18_Witness ==
    /\ constructed[1] /\ constructed[2]
    /\ Len(predictions_log[1]) = 1 /\ Len(predictions_log[2]) = 1
    /\ appends = 2
    /\ predictions_log[1] # predictions_log[2]
    /\ log_file.predictions = predictions_log[2]
    /\ log_file.total_predictions = 1

\* C20: log_prediction never propagates a fault to its caller; called without
\* a confidence it appends the record and returns normally.
C20_LogPredictionReturns ==
    (lastOp.op = "log_prediction") => logRet = "None"

\* -------------------------------------------------------------- evaluator
C19_State ==
    (evalPc = "done" /\ Len(true_labels) > 0 /\ Len(predictions) # Len(true_labels)) =>
        /\ Len(predictions) < Len(true_labels)
        /\ evalRet = "ValueError"
        /\ summary = NoSummary

C19_Step ==
    (evalPc = "predict" /\ evalPc' = "done" /\ Len(predictions) # Len(true_labels)) =>
        /\ evalRet' = "ValueError"
        /\ summary' = NoSummary
        /\ output_file' = output_file

\* C19: in run_evaluation, when fewer predictions were obtained than labels
\* loaded (a request answered non-200 or raised and was dropped), the run ends
\* with the ValueError of evaluate_performance: no results are returned and
\* the output file is not written.
C19_MismatchAborts == []C19_State /\ [][C19_Step]_vars

C19_Witness ==
    /\ evalPc = "done"
    /\ save_to_file
    /\ Len(true_labels) = 3
    /\ Len(predictions) = 2
    /\ evalRet = "ValueError"
    /\ output_file = NoOutputFile

\* ------------------------------------------------------- deploy, continued
C22_State ==
    /\ (entry = "wait" /\ pc = "done") =>
          /\ ret = "True" <=> sawHealthy
          /\ ret = "True" => lastPoll = "healthy200"
          /\ ~sawHealthy => (ret = "False" /\ polls = max_wait \div 10)
          /\ max_wait < 10 => (polls = 0 /\ ret = "False")
    /\ (entry \in {"wait", "deploy"} /\ sawHealthy) => pc # "waiting"

C22_Step == sawHealthy => polls' <= polls

\* C22: wait_for_deployment returns true at the first healthy poll and polls
\* no more after it; when every poll is unhealthy it performs exactly
\* floor(max_wait / 10) polls and then returns false, so for max_wait < 10 it
\* returns false without a poll.
C22_FirstHealthyPollReturns == []C22_State /\ [][C22_Step]_vars

\* C24: deploy() with the smoke tests disabled executes no smoke probe, and
\* returns Succeeded iff every provisioning command succeeded and the health
\* gate observed a healthy poll.
C24_NoSmokeWhenDisabled ==
    (entry = "deploy" /\ ~run_tests) =>
        /\ suiteRuns = 0
        /\ test_results = << >>
        /\ pc \in {"commands", "waiting", "done"}
        /\ pc = "done" =>
              (ret = "True" <=>
                  /\ Len(executed) = 3
                  /\ \A k \in DOMAIN executed : executed[k].ok
                  /\ sawHealthy)

\* -------------------------------------------------- smoke tests, continued
ProbeNames == << "Health Check", "Prediction", "Metrics", "Grafana", "Prometheus", "MLflow" >>

\* results appended by the current run when it is at position p
ProbesDone(p, s) ==
    IF p = "health" THEN 0
    ELSE IF p = "prediction" THEN 1
    ELSE IF p = "metrics" THEN 2
    ELSE IF p = "monitoring" THEN 2 + s
    ELSE 6

\* C25: in every run of run_all_tests all probes run in the order health,
\* prediction, metrics, auxiliary services whatever the earlier probes gave, and
\* the run appends exactly six results in the order Health Check, Prediction,
\* Metrics, Grafana, Prometheus, MLflow, each Pass, Fail or Skip.
C25_SixResultsInOrder ==
    /\ \A k \in DOMAIN test_results :
          /\ test_results[k][1] = ProbeNames[((k - 1) % 6) + 1]
          /\ test_results[k][2] \in {"PASS", "FAIL", "SKIP"}
    /\ entry = "smoke" => Len(test_results) = 6 * (suiteRuns - 1) + ProbesDone(pc, svc)
    /\ entry = "none" => (pc = "idle" /\ Len(test_results) = 6 * suiteRuns)

C25_Witness ==
    /\ entry = "smoke"
    /\ pc = "done"
    /\ suiteRuns = 1
    /\ Len(test_results) = 6
    /\ test_results[1][2] = "FAIL"
    /\ test_results[2][2] = "FAIL"
    /\ test_results[3][2] = "PASS"
    /\ test_results[6][2] = "SKIP"

C26_State ==
    (entry = "smoke" /\ pc = "done") =>
        /\ ret \in {"True", "False"}
        /\ Len(test_results) = 6 * suiteRuns

C26_Step ==
    (pc \in {"health", "prediction", "metrics", "monitoring"} /\ probeResp' = "neterr") =>
        LET name == ProbeNames[ProbesDone(pc, svc) + 1]
        IN  /\ test_results' =
                  Append(test_results, <<name, IF name = "MLflow" THEN "SKIP" ELSE "FAIL">>)
            /\ pc' \in {"prediction", "metrics", "monitoring", "aggregate"}
            /\ ProbesDone(pc', svc') = ProbesDone(pc, svc) + 1
            /\ ret' = ret

\* C26: in the smoke suite a request that raises is neither retried nor
\* propagated: the probe appends exactly one result for it (Fail, or Skip for
\* the optional service), the next probe runs, and run_all_tests returns a
\* boolean.
C26_ProbeErrorIsOneResult == []C26_State /\ [][C26_Step]_vars

C26_Witness ==
    /\ entry = "smoke"
    /\ pc = "done"
    /\ probeResp = "neterr"
    /\ Len(test_results) = 6
    /\ \A k \in 1..5 : test_results[k][2] = "PASS"
    /\ test_results[6] = <<"MLflow", "SKIP">>
    /\ ret = "True"

C28_State ==
    (/\ entry = "smoke" /\ pc = "done" /\ suiteRuns >= 2
     /\ \E k \in 1..(6 * (suiteRuns - 1)) : test_results[k][2] = "FAIL")
        => ret = "False"

C28_Step ==
    /\ Len(test_results') >= Len(test_results)
    /\ SubSeq(test_results', 1, Len(test_results)) = test_results

\* C28: run_all_tests never clears test_results: after a run that recorded a
\* Fail, every later run_all_tests on the same SmokeTest object returns false,
\* also when all of its own probes pass.
C28_ResultsAccumulate == []C28_State /\ [][C28_Step]_vars

C28_Witness ==
    /\ entry = "smoke"
    /\ pc = "done"
    /\ suiteRuns = 2
    /\ Len(test_results) = 12
    /\ test_results[1][2] = "FAIL"
    /\ \A k \in 7..12 : test_results[k][2] = "PASS"
    /\ ret = "False"

\* ------------------------------------------------------------ termination
\* what a running deploy() has done so far
C23_Measure ==
    Len(executed) + polls + suiteRuns + Len(test_results)
        + (IF pc \in {"aggregate", "done"} THEN 1 ELSE 0) + (IF pc = "done" THEN 1 ELSE 0)

C23_Bounds ==
    (entry = "deploy") =>
        /\ Len(executed) <= 3
        /\ \A k \in DOMAIN executed :
              executed[k].cmd = (IF deployment_type = "docker"
                                 THEN DockerCommands ELSE K8sCommands)[k]
        /\ polls <= 30
        /\ suiteRuns <= 1
        /\ Len(test_results) <= 6
        /\ C23_Measure <= 42
        /\ pc = "done" => ret \in {"True", "False"}

\* every step of a running deploy() does something new
C23_Step ==
    (entry = "deploy" /\ pc # "done") =>
        (entry' = "deploy" /\ C23_Measure' > C23_Measure)

\* C23: every deploy() whose commands and requests all return reaches a
\* terminal outcome after a bounded number of steps: at most 3 commands, at
\* most 30 health polls and at most one run of the smoke suite, and no step
\* is repeated outside the health gate.
C23_DeployTerminates ==
    /\ []C23_Bounds
    /\ [][C23_Step]_vars
    /\ (entry = "deploy") ~> (entry = "deploy" /\ pc = "done")

C23_Witness ==
    /\ entry = "deploy"
    /\ pc = "done"
    /\ Len(executed) = 3
    /\ polls = 30
    /\ ret = "False"
    /\ failedAt = "health"

\* ------------------------------------------------ monitor, continued
C21_State ==
    LET log == predictions_log[1]
        cats == {k \in DOMAIN test_images : test_images[k] = "cat"}
        dogs == {k \in DOMAIN test_images : test_images[k] = "dog"}
        hits == {k \in DOMAIN log : log[k].predicted_class = log[k].actual_class}
    IN  /\ Cardinality(cats) <= 5
        /\ Cardinality(dogs) <= 5
        /\ Cardinality(cats) <= test_dir.cat
        /\ Cardinality(dogs) <= test_dir.dog
        /\ Len(test_images) <= 10
        /\ knownIdx <= Len(test_images)
        /\ Len(log) = knownTotal
        /\ Len(log) <= knownIdx
        /\ \A k \in DOMAIN log : log[k].actual_class \in {"cat", "dog"}
        /\ (knownPc = "done" /\ test_dir.exists) =>
              /\ knownIdx = Len(test_images)
              /\ knownRet.kind = "accuracy"
              /\ IF Len(log) = 0 THEN knownRet.accuracy.num = 0 /\ knownRet.accuracy.den = 1
                 ELSE RatioIs(knownRet.accuracy, Cardinality(hits), Len(log))
        /\ (knownPc = "done" /\ ~test_dir.exists) =>
              (knownIdx = 0 /\ log = << >> /\ knownRet.kind = "None")

C21_Step ==
    (knownIdx' # knownIdx) =>
        LET log == predictions_log[1]
            after == predictions_log'[1]
        IN  /\ knownIdx' = knownIdx + 1
            /\ IF knownResp' \in {"cat", "dog"}
               THEN /\ Len(after) = Len(log) + 1
                    /\ SubSeq(after, 1, Len(log)) = log
                    /\ after[Len(after)].predicted_class = knownResp'
                    /\ after[Len(after)].actual_class = test_images[knownIdx']
               ELSE after = log

MetricsOps == {"get_performance_metrics", "generate_performance_report", "check_model_drift"}

C27_Step ==
    (lastOp'.op \in MetricsOps) =>
        /\ predictions_log' = predictions_log
        /\ log_file' = log_file
        /\ (lastOp.op \in MetricsOps /\ lastOp.m = lastOp'.m /\ now' = now) =>
              snapshot' = snapshot

\* C27: get_performance_metrics, generate_performance_report and
\* check_model_drift are read-only: they leave the in-memory log and the
\* persisted document unchanged, and two consecutive snapshots with no append
\* in between and the same clock value agree on every field.
C27_MetricsReadOnly == [][C27_Step]_vars

C27_Witness ==
    /\ lastOp.op = "generate_performance_report"
    /\ ~snapshot.empty
    /\ Len(OpLog) = 2
    /\ log_file.state = "ok"
    /\ log_file.total_predictions = 1

C29_State ==
    (lastOp.op = "__init__" /\ log_file.state = "corrupt") => OpLog = << >>

C29_Step ==
    (/\ constructed[1]
     /\ log_file.state = "corrupt"
     /\ predictions_log[1] = << >>
     /\ lastOp'.op = "log_prediction") =>
        /\ Len(predictions_log'[1]) = 1
        /\ log_file'.state = "ok"
        /\ log_file'.predictions = predictions_log'[1]
        /\ log_file'.total_predictions = 1

\* C29: a monitor constructed on a log file that cannot be read or parsed
\* starts with an empty in-memory log, and its first log_prediction rewrites
\* the file with only the new record: the records persisted before are lost.
C29_UnreadableFileOverwritten == []C29_State /\ [][C29_Step]_vars

\* C30: whenever run_evaluation produces a summary, prediction k is the one
\* of image k and was compared with that image's label, cat_total + dog_total
\* = total_predictions, cat_correct + dog_correct = correct_predictions,
\* correct_predictions <= total_predictions and each per-class correct count
\* <= its class total.
C30_SummaryConsistent ==
    (evalPc = "done" /\ evalRet = "results") =>
        /\ Len(predictions) = Len(true_labels)
        /\ \A k \in DOMAIN predictions : predictions[k].image = k
        /\ summary.correct_predictions =
              Cardinality({k \in DOMAIN true_labels :
                              predictions[k].predicted_class = true_labels[k]})
        /\ summary.total_predictions = Len(true_labels)
        /\ summary.cat_total + summary.dog_total = summary.total_predictions
        /\ summary.cat_correct + summary.dog_correct = summary.correct_predictions
        /\ summary.correct_predictions <= summary.total_predictions
        /\ summary.cat_correct <= summary.cat_total
        /\ summary.dog_correct <= summary.dog_total

C30_Witness ==
    /\ evalPc = "done"
    /\ evalRet = "results"
    /\ Len(true_labels) = 4
    /\ summary.cat_total = 2
    /\ summary.cat_correct = 1
    /\ summary.dog_correct = 1
    /\ summary.correct_predictions = 2

====
